---- MODULE Spec2Model ----
(***************************************************************************)
(* bmon: a terminal bandwidth monitor.  The model follows main(), run()    *)
(* and display_bar_chart() of src/src/sampling/time_series.hpp.  The       *)
(* terminal guards, the signal suspender, the interrupt handler, the       *)
(* sampler detector and the TimeSeries bodies are not part of the source   *)
(* files at hand; they are modelled from the specification's description.  *)
(* Formatter::format_num_byte_rate and format_xaxis follow                 *)
(* src/src/termui/formatter.cpp; TimeSeries and the two formatters are     *)
(* also exercised on their own (SpecSeries, SpecFormat, SpecAxis).         *)
(***************************************************************************)
EXTENDS Integers, Sequences, FiniteSets, TLC

\* ------------------------------------------------------------------ bounds

\* Outer iterations of the driver loop explored by SpecDriver.
MaxIter == 2
\* Outer iterations of the driver loop explored by the lifecycle Spec.
LifeIter == 1
\* Keystrokes that may arrive during one time budget.
MaxKeys == 2
\* Explicit release calls per guard in the guard harness SpecGuards.
MaxRelease == 2
\* Timestamps handed to format_xaxis in one call.
MaxPoints == 9

\* --------------------------------------------------------- terminal state

\* termios c_lflag bits the model tracks.
LocalFlags == {"ECHO", "ICANON", "ISIG"}
\* c_lflag values the program may be started with.
InitialLflags == {{"ECHO", "ICANON", "ISIG"}, {"ICANON", "ISIG"}}
\* stdin file-status values the program may be started with.
InitialFflags == {{}, {"O_NONBLOCK"}, {"O_APPEND"}}

\* mode_set.local_off(ECHO).local_off(ICANON)
ModeSetApply(cur) == cur \ {"ECHO", "ICANON"}

\* non_blocking_status_set.status_on(O_NONBLOCK)
NonBlockingSetApply(cur) == cur \cup {"O_NONBLOCK"}

\* The sampler variants run() links against.
Variants == {"sysfs", "procfs", "ip", "netstat"}

VARIABLES
    pc,          \* position of the single thread of control
    exc,         \* exception in flight: "none", "Interrupt" or one of Failures
    status,      \* process exit status: "none" while running
    lflag,       \* terminal local-mode flags
    lflag0,      \* their value at program start
    fflag,       \* stdin file-status flags
    fflag0,      \* their value at program start
    sigmask,     \* blocked signals
    pending,     \* SIGINT raised while blocked, not yet delivered
    saved_mask,  \* mask remembered by the active signal suspension
    mode_guard,  \* TerminalModeGuard: [state, prev]
    fs_guard,    \* FileStatusGuard (non-blocking stdin): [state, prev]
    log,         \* every write of terminal / file-status state, in order
    sampler,     \* the sampler detect_sampler returned ("none" before)
    probed,      \* the probes detect_sampler made, in order, with their outcome
    detects,     \* number of detect_sampler calls so far
    ret,         \* where control returns when the mode restore in progress ends
    releases,    \* explicit release calls made so far, per guard (SpecGuards only)
    mode,        \* DisplayMode of display_bar_chart
    stdin_buf,   \* bytes typed and not yet read by fgetc
    mode_before, \* the mode when the latest input_loop call began
    consumed,    \* bytes fgetc returned during the latest input_loop call
    redraws,     \* surface.on_carriage_return() calls during that call
    polls,       \* read_input calls made by that call
    prev_sample, \* display_bar_chart's prev_sample
    ts_rx,       \* TimeSeries of received bytes per interval
    ts_tx,       \* TimeSeries of transmitted bytes per interval
    clock,       \* milliseconds since the series' start epoch
    iter,        \* samples taken inside the loop so far
    fed,         \* what the latest iteration fed into the series
    rendered,    \* what the latest draw_bars_from_right call was given
    call,        \* calls made on a unit exercised on its own, in order
    result       \* what the latest such call returned

startVars == <<lflag0, fflag0>>
sigVars == <<sigmask, pending, saved_mask>>
guardVars == <<mode_guard, fs_guard, ret, releases>>
detVars == <<sampler, probed, detects>>

lifeVars == <<pc, exc, status, lflag, fflag, log, startVars, sigVars, guardVars, detVars>>

inputVars == <<mode, stdin_buf, mode_before, consumed, redraws, polls>>
seriesVars == <<prev_sample, ts_rx, ts_tx, iter, fed>>
drvVars == <<inputVars, seriesVars, clock, rendered>>

unitVars == <<call, result>>

vars == <<lifeVars, drvVars, unitVars>>

\* ------------------------------------------------------- 64-bit counters

\* A uint64_t is held as seven base-1024 digits, least significant first; the
\* seventh digit holds the top four bits.
DigitRadix(i) == IF i = 7 THEN 16 ELSE 1024

RECURSIVE Digits(_, _)
Digits(n, k) == IF k = 0 THEN <<>> ELSE <<n % 1024>> \o Digits(n \div 1024, k - 1)

\* The uint64_t with value n, for n below 2^31.
U64(n) == Digits(n, 7)

Zero64 == U64(0)

\* a - b on uint64_t: the borrow out of the top digit is dropped, which is the
\* wrap-around modulo 2^64.
RECURSIVE SubFrom(_, _, _, _)
SubFrom(a, b, i, borrow) ==
    IF i > 7 THEN <<>>
    ELSE LET d == a[i] - b[i] - borrow IN
         IF d < 0
         THEN <<d + DigitRadix(i)>> \o SubFrom(a, b, i + 1, 1)
         ELSE <<d>> \o SubFrom(a, b, i + 1, 0)

Sub64(a, b) == SubFrom(a, b, 1, 0)

\* a + b on uint64_t, the carry out of the top digit dropped.
RECURSIVE AddFrom(_, _, _, _)
AddFrom(a, b, i, carry) ==
    IF i > 7 THEN <<>>
    ELSE LET d == a[i] + b[i] + carry IN
         IF d >= DigitRadix(i)
         THEN <<d - DigitRadix(i)>> \o AddFrom(a, b, i + 1, 1)
         ELSE <<d>> \o AddFrom(a, b, i + 1, 0)

Add64(a, b) == AddFrom(a, b, 1, 0)

\* a < b on uint64_t, comparing from the most significant digit down.
RECURSIVE LessFrom(_, _, _)
LessFrom(a, b, i) ==
    IF i = 0 THEN FALSE
    ELSE IF a[i] # b[i] THEN a[i] < b[i] ELSE LessFrom(a, b, i - 1)

Less64(a, b) == LessFrom(a, b, 7)

\* ------------------------------------------------------------- TimeSeries

\* Ring slots of a TimeSeries.
RingCapacity == 3
\* bar_chart.get_width(): columns the chart shows.
ChartWidth == 3

\* std::chrono::seconds one_sec{1}, in milliseconds.
IntervalMs == 1000

\* TimeSeries(interval, start): every slot zero, nothing written.
NewTimeSeries ==
    [storage |-> [k \in 0..(RingCapacity - 1) |-> Zero64], max_key |-> 0, written |-> {}]

\* The key taken from the nearest interval boundary instead of the last one.
calculate_key_rounded(tp) == (tp + (IntervalMs \div 2)) \div IntervalMs

\* calculate_key(tp): intervals elapsed since the start epoch.
calculate_key(tp) == tp \div IntervalMs

\* set with the writes past the last slot all landing in the last slot.
TimeSeriesSetNoWrap(ts, tp, value) ==
    LET key == calculate_key(tp)
        slot == IF key >= RingCapacity THEN RingCapacity - 1 ELSE key
    IN  [storage |-> [ts.storage EXCEPT ![slot] = value],
         max_key |-> IF key > ts.max_key THEN key ELSE ts.max_key,
         written |-> ts.written \cup {slot}]

\* set(tp, value): the slot of tp's key takes the value, whatever it held.
TimeSeriesSet(ts, tp, value) ==
    LET key == calculate_key(tp) IN
    [storage |-> [ts.storage EXCEPT ![key % RingCapacity] = value],
     max_key |-> IF key > ts.max_key THEN key ELSE ts.max_key,
     written |-> ts.written \cup {key % RingCapacity}]

\* calculate_key(index): the instant, in milliseconds since the start epoch,
\* at which the interval window of that index begins.
calculate_key_of_index(index) == index * IntervalMs

\* The slice handed out newest first.
get_slice_newest_first(ts, len) ==
    [j \in 1..len |->
        LET key == ts.max_key - (j - 1) IN
        IF key < 0 THEN Zero64 ELSE ts.storage[key % RingCapacity]]

\* get_slice_from_end(len): the len slots ending at the latest write position,
\* oldest first, zero before the start epoch.
get_slice_from_end(ts, len) ==
    [j \in 1..len |->
        LET key == ts.max_key - (len - j) IN
        IF key < 0 THEN Zero64 ELSE ts.storage[key % RingCapacity]]

\* get(tp): the slot of tp's key.
TimeSeriesGet(ts, tp) == ts.storage[calculate_key(tp) % RingCapacity]

\* size(): ring positions written at least once.
size(ts) == Cardinality(ts.written)

\* capacity(): the number of ring slots.
capacity(ts) == Cardinality(DOMAIN ts.storage)

\* ------------------------------------------------------------------ input

\* '\n', 'r' and 't' as read_input compares them.
CharNewline == 10
CharR == 114
CharT == 116

\* Bytes the user may type: newline, r, t, x and a byte above 0x7f.
Keys == {CharNewline, CharR, CharT, 120, 195}

\* char ch = fgetc(stdin): the byte as a signed char.
AsChar(byte) == IF byte >= 128 THEN byte - 256 ELSE byte

\* read_input with the two mode keys exchanged.
KeyActionSwapped(ch) ==
    IF ch < 0 THEN "stop"
    ELSE IF ch = CharNewline THEN "redraw"
    ELSE IF ch = CharR THEN "DISPLAY_TX"
    ELSE IF ch = CharT THEN "DISPLAY_RX"
    ELSE "next"

\* What read_input does with one character it read.
KeyAction(ch) ==
    IF ch < 0 THEN "stop"
    ELSE IF ch = CharNewline THEN "redraw"
    ELSE IF ch = CharR THEN "DISPLAY_RX"
    ELSE IF ch = CharT THEN "DISPLAY_TX"
    ELSE "next"

\* read_input's loop over the bytes waiting on the non-blocking stdin; an
\* empty buffer makes fgetc return EOF.
RECURSIVE ReadFrom(_, _, _)
ReadFrom(buf, taken, nredraw) ==
    IF buf = <<>>
    THEN [mode |-> "none", rest |-> buf, taken |-> taken, redraws |-> nredraw]
    ELSE LET act == KeyAction(AsChar(Head(buf)))
             seen == Append(taken, Head(buf))
         IN  CASE act = "stop" ->
                    [mode |-> "none", rest |-> Tail(buf), taken |-> seen,
                     redraws |-> nredraw]
               [] act = "redraw" -> ReadFrom(Tail(buf), seen, nredraw + 1)
               [] act = "next" -> ReadFrom(Tail(buf), seen, nredraw)
               [] OTHER ->
                    [mode |-> act, rest |-> Tail(buf), taken |-> seen,
                     redraws |-> nredraw]

read_input(buf) == ReadFrom(buf, <<>>, 0)

\* auto num_loops = 100
NumLoops == 100
\* input_loop(surface, std::chrono::milliseconds{1000})
TimeBudgetMs == 1000

\* The bytes of a typing script that arrive during the sleep of poll i.
ArrivedAt(script, i) ==
    LET hits == SelectSeq(script, LAMBDA e : e.at = i) IN
    [k \in 1..Len(hits) |-> hits[k].ch]

\* The first poll after i during whose sleep the script delivers a byte, the
\* last poll when there is none.
NextArrival(script, i) ==
    LET later == {script[k].at : k \in {n \in 1..Len(script) : script[n].at > i}} IN
    IF later = {} THEN NumLoops
    ELSE CHOOSE a \in later : \A b \in later : a <= b

\* input_loop from its i-th read_input call on.  A poll that finds stdin
\* empty reads nothing and changes nothing, so the polls between i and the
\* next one with something to read are taken in one stride.
RECURSIVE InputFrom(_, _, _, _, _)
InputFrom(i, buf, script, taken, nredraw) ==
    LET r == read_input(buf \o ArrivedAt(script, i)) IN
    IF r.mode # "none" \/ i >= NumLoops
    THEN [mode |-> r.mode, rest |-> r.rest, taken |-> taken \o r.taken,
          redraws |-> nredraw + r.redraws, polls |-> i]
    ELSE InputFrom(IF r.rest # <<>> THEN i + 1 ELSE NextArrival(script, i),
                   r.rest, script, taken \o r.taken, nredraw + r.redraws)

input_loop(buf, script) == InputFrom(1, buf, script, <<>>, 0)

\* ------------------------------------------------------- sampler detection

\* The priority order in which detect_sampler probes the variants.
ProbeOrder == <<"sysfs", "procfs", "ip", "netstat">>

\* detect_sampler stopping at the first variant that yields a sample.
RECURSIVE ProbeFrom(_, _, _)
ProbeFrom(k, avail, tried) ==
    IF k > Len(ProbeOrder)
    THEN [sampler |-> "none", probed |-> tried]
    ELSE IF ProbeOrder[k] \in avail
         THEN [sampler |-> ProbeOrder[k],
               probed |-> Append(tried, [variant |-> ProbeOrder[k], ok |-> TRUE])]
         ELSE ProbeFrom(k + 1, avail,
                        Append(tried, [variant |-> ProbeOrder[k], ok |-> FALSE]))

\* detector.detect_sampler(iface_name), avail being the variants that can
\* currently read the interface's counters.
detect_sampler(avail) == ProbeFrom(1, avail, <<>>)

\* ------------------------------------------------------------ run(), main()

\* run() with the mode guard acquired ahead of sampler detection.
RunOrderGuardFirst == <<"mode_guard", "detect", "window", "fs_guard", "driver">>

\* The statements of run() that matter, in program order.
RunOrder == <<"detect", "mode_guard", "window", "fs_guard", "driver">>

\* The first step of each statement of run().
StmtEntry(s) ==
    CASE s = "detect" -> "detect"
      [] s = "mode_guard" -> "mg_enter"
      [] s = "window" -> "window"
      [] s = "fs_guard" -> "fg_capture"
      [] s = "driver" -> "dbc_init"

IndexOf(seq, x) == CHOOSE i \in 1..Len(seq) : seq[i] = x

\* Where control goes when statement s of run() completes normally.
AfterStmt(s) == StmtEntry(RunOrder[IndexOf(RunOrder, s) + 1])

Reverse(seq) == [i \in 1..Len(seq) |-> seq[Len(seq) + 1 - i]]

\* Scope exit releasing the guards in the order they were acquired.
ReleaseOrderForward == SelectSeq(RunOrder, LAMBDA s : s \in {"mode_guard", "fs_guard"})

\* Scope exit of run(): locals are destroyed in the reverse of their
\* declaration order; only the two guards touch terminal state.
ReleaseOrder == SelectSeq(Reverse(RunOrder), LAMBDA s : s \in {"mode_guard", "fs_guard"})

\* The failures run() may end with.
Failures == {"NoSamplerAvailable", "TerminalControlFailure", "SourceUnavailable"}

\* main() whose handlers all fall through to return 0.
ExitStatusSwallowed(e) == "EXIT_SUCCESS"

\* main()'s handlers: InterruptException falls through to return 0, anything
\* else exits with EXIT_FAILURE.
ExitStatus(e) == IF e = "Interrupt" THEN "EXIT_SUCCESS" ELSE "EXIT_FAILURE"

\* A pending SIGINT is delivered as soon as it is unblocked.
Deliverable == pending /\ "SIGINT" \notin sigmask

\* The thread of control may take its next step.
Running == status = "none" /\ ~Deliverable

Throw(kind) == exc' = kind /\ pc' = "unwind"

Logged(op, old, new) == log' = Append(log, [op |-> op, old |-> old, new |-> new])

\* main(): the argument check, signal(SIGINT, ...), entry of the try block.
MainStart ==
    /\ pc = "main" /\ Running
    /\ \E argc \in {1, 2} :
          IF argc < 2
          THEN pc' = "exit" /\ status' = "EXIT_FAILURE"
          ELSE pc' = StmtEntry(RunOrder[1]) /\ status' = status
    /\ UNCHANGED <<exc, lflag, fflag, log, startVars, unitVars, sigVars, guardVars, detVars, drvVars>>

\* run(): detector.detect_sampler(iface_name).
RunDetect ==
    /\ pc = "detect" /\ exc = "none" /\ Running
    /\ \E avail \in SUBSET Variants :
          LET r == detect_sampler(avail) IN
          /\ probed' = probed \o r.probed
          /\ sampler' = r.sampler
          /\ IF r.sampler = "none" THEN Throw("NoSamplerAvailable")
             ELSE pc' = AfterStmt("detect") /\ exc' = exc
    /\ detects' = detects + 1
    /\ UNCHANGED <<status, lflag, fflag, log, startVars, unitVars, sigVars, guardVars, drvVars>>

\* SignalSuspender: block the signal, remembering the mask in force.
Suspend(sig) == saved_mask' = sigmask /\ sigmask' = sigmask \cup {sig}

\* SignalSuspender: the end of the suspension scope.
Resume == sigmask' = saved_mask /\ saved_mask' = saved_mask

\* TerminalModeGuard mode_guard{&mode_setter}: the setter built with
\* &susp_sigint enters its critical section.
ModeGuardEnter ==
    /\ pc = "mg_enter" /\ exc = "none" /\ Running
    /\ Suspend("SIGINT")
    /\ pc' = "mg_capture"
    /\ UNCHANGED <<exc, status, lflag, fflag, log, startVars, unitVars, pending, guardVars,
                   detVars, drvVars>>

\* The setter reads the current terminal attributes and remembers them;
\* tcgetattr may fail, which leaves the critical section by an exception.
ModeGuardCapture ==
    /\ pc = "mg_capture" /\ exc = "none" /\ Running
    /\ \/ /\ mode_guard' = [mode_guard EXCEPT !.prev = lflag]
          /\ pc' = "mg_write"
          /\ UNCHANGED <<exc, sigmask, saved_mask>>
       \/ /\ Resume
          /\ Throw("TerminalControlFailure")
          /\ UNCHANGED mode_guard
    /\ UNCHANGED <<status, lflag, fflag, log, startVars, unitVars, pending, fs_guard, ret, releases,
                   detVars, drvVars>>

\* The setter writes the new local-mode flags.
ModeGuardWrite ==
    /\ pc = "mg_write" /\ exc = "none" /\ Running
    /\ lflag' = ModeSetApply(lflag)
    /\ Logged("mode_set", lflag, ModeSetApply(lflag))
    /\ pc' = "mg_leave"
    /\ UNCHANGED <<exc, status, fflag, startVars, unitVars, sigVars, guardVars, detVars, drvVars>>

\* The critical section ends and the guard is in place.
ModeGuardLeave ==
    /\ pc = "mg_leave" /\ exc = "none" /\ Running
    /\ Resume
    /\ mode_guard' = [mode_guard EXCEPT !.state = "held", !.alive = TRUE]
    /\ pc' = AfterStmt("mode_guard")
    /\ UNCHANGED <<exc, status, lflag, fflag, log, startVars, unitVars, pending, fs_guard, ret,
                   releases, detVars, drvVars>>

\* TerminalWindow::create(&driver, &susp_sigwinch): reading the window size
\* may fail.
WindowCreate ==
    /\ pc = "window" /\ exc = "none" /\ Running
    /\ \/ pc' = AfterStmt("window") /\ exc' = exc
       \/ Throw("TerminalControlFailure")
    /\ UNCHANGED <<status, lflag, fflag, log, startVars, unitVars, sigVars, guardVars,
                   detVars, drvVars>>

\* FileStatusGuard non_block_status_guard{&non_blocking_status_setter}: the
\* setter, built from STDIN_FILENO alone, reads the current status flags.
FileStatusGuardCapture ==
    /\ pc = "fg_capture" /\ exc = "none" /\ Running
    /\ \/ /\ fs_guard' = [fs_guard EXCEPT !.prev = fflag]
          /\ pc' = "fg_write"
          /\ exc' = exc
       \/ /\ Throw("TerminalControlFailure")
          /\ UNCHANGED fs_guard
    /\ UNCHANGED <<status, lflag, fflag, log, startVars, unitVars, sigVars, mode_guard, ret,
                   releases, detVars, drvVars>>

\* The setter writes the new status flags.
FileStatusGuardWrite ==
    /\ pc = "fg_write" /\ exc = "none" /\ Running
    /\ fflag' = NonBlockingSetApply(fflag)
    /\ Logged("fs_set", fflag, NonBlockingSetApply(fflag))
    /\ pc' = "fg_done"
    /\ UNCHANGED <<exc, status, lflag, startVars, unitVars, sigVars, guardVars, detVars, drvVars>>

\* The guard's constructor returns: from here on its destructor will run.
FileStatusGuardDone ==
    /\ pc = "fg_done" /\ exc = "none" /\ Running
    /\ fs_guard' = [fs_guard EXCEPT !.state = "held", !.alive = TRUE]
    /\ pc' = AfterStmt("fs_guard")
    /\ UNCHANGED <<exc, status, lflag, fflag, log, startVars, unitVars, sigVars, mode_guard, ret,
                   releases, detVars, drvVars>>

\* ------------------------------------------------------------ guard release

\* A guard that forgets it has already restored.
ShouldRestoreAlways(g) == g.state # "none"

\* A guard restores on release only while it still holds its acquisition.
ShouldRestore(g) == g.state = "held"

\* FileStatusGuard release: the remembered status flags are written back.
FileStatusRelease(alive) ==
    IF ShouldRestore(fs_guard)
    THEN /\ fflag' = fs_guard.prev
         /\ Logged("fs_reset", fflag, fs_guard.prev)
         /\ fs_guard' = [fs_guard EXCEPT !.state = "released", !.alive = alive]
    ELSE /\ fs_guard' = [fs_guard EXCEPT !.alive = alive]
         /\ UNCHANGED <<fflag, log>>

\* TerminalModeGuard release: a no-op unless the guard still holds; otherwise
\* the restore runs as a critical section of the interrupt suspender and
\* control comes back to r.
ModeRelease(alive, r) ==
    /\ mode_guard' = [mode_guard EXCEPT !.alive = alive]
    /\ IF ShouldRestore(mode_guard)
       THEN pc' = "mr_enter" /\ ret' = r
       ELSE pc' = r /\ ret' = ret

\* The guards whose destructors the unwind still has to run, in order.
AliveGuards ==
    SelectSeq(ReleaseOrder,
              LAMBDA g : IF g = "mode_guard" THEN mode_guard.alive ELSE fs_guard.alive)

\* Unwinding run(): ~FileStatusGuard.
DestroyFileStatusGuard ==
    /\ pc = "unwind" /\ exc # "none" /\ Running
    /\ AliveGuards # <<>> /\ Head(AliveGuards) = "fs_guard"
    /\ FileStatusRelease(FALSE)
    /\ UNCHANGED <<pc, exc, status, lflag, startVars, unitVars, sigVars, mode_guard, ret, releases,
                   detVars, drvVars>>

\* Unwinding run(): ~TerminalModeGuard.
DestroyModeGuard ==
    /\ pc = "unwind" /\ exc # "none" /\ Running
    /\ AliveGuards # <<>> /\ Head(AliveGuards) = "mode_guard"
    /\ ModeRelease(FALSE, "unwind")
    /\ UNCHANGED <<exc, status, lflag, fflag, log, startVars, unitVars, sigVars, fs_guard, releases,
                   detVars, drvVars>>

\* The mode restore enters its critical section.
ModeReleaseEnter ==
    /\ pc = "mr_enter" /\ Running
    /\ Suspend("SIGINT")
    /\ pc' = "mr_write"
    /\ UNCHANGED <<exc, status, lflag, fflag, log, startVars, unitVars, pending, guardVars,
                   detVars, drvVars>>

\* The remembered local-mode flags are written back.
ModeReleaseWrite ==
    /\ pc = "mr_write" /\ Running
    /\ lflag' = mode_guard.prev
    /\ Logged("mode_reset", lflag, mode_guard.prev)
    /\ mode_guard' = [mode_guard EXCEPT !.state = "released"]
    /\ pc' = "mr_leave"
    /\ UNCHANGED <<exc, status, fflag, startVars, unitVars, sigVars, fs_guard, ret, releases,
                   detVars, drvVars>>

\* The critical section of the restore ends.
ModeReleaseLeave ==
    /\ pc = "mr_leave" /\ Running
    /\ Resume
    /\ pc' = ret
    /\ UNCHANGED <<exc, status, lflag, fflag, log, startVars, unitVars, pending, guardVars,
                   detVars, drvVars>>

\* Every local of run() is destroyed: the exception reaches main()'s handlers.
UnwindDone ==
    /\ pc = "unwind" /\ exc # "none" /\ Running
    /\ AliveGuards = <<>>
    /\ pc' = "catch"
    /\ UNCHANGED <<exc, status, lflag, fflag, log, startVars, unitVars, sigVars, guardVars,
                   detVars, drvVars>>

\* main(): the catch clauses and the end of the process.
MainCatch ==
    /\ pc = "catch" /\ Running
    /\ status' = ExitStatus(exc)
    /\ pc' = "exit"
    /\ UNCHANGED <<exc, lflag, fflag, log, startVars, unitVars, sigVars, guardVars, detVars, drvVars>>

\* ------------------------------------------------------------------ SIGINT

\* sigint_handler runs: it throws InterruptException into the interrupted
\* control flow.  The kernel blocks SIGINT while the handler runs and the
\* handler never returns, so the signal stays blocked.  Thrown while another
\* exception is unwinding or being handled, the exception ends the process
\* through std::terminate without any further destructor.
HandlerThrows ==
    /\ pending' = FALSE
    /\ sigmask' = sigmask \cup {"SIGINT"}
    /\ IF exc = "none"
       THEN Throw("Interrupt") /\ status' = status
       ELSE pc' = "exit" /\ status' = "SIGABRT" /\ exc' = exc

\* The user presses Ctrl+C after the handler is installed (before that the
\* default action ends the process with the terminal untouched).
Sigint ==
    /\ pc \notin {"main", "exit"} /\ status = "none"
    /\ IF "SIGINT" \in sigmask
       THEN pending' = TRUE /\ UNCHANGED <<pc, exc, status, sigmask>>
       ELSE HandlerThrows
    /\ UNCHANGED <<lflag, fflag, log, startVars, unitVars, saved_mask, guardVars, detVars, drvVars>>

\* A SIGINT that arrived while blocked is delivered once it is unblocked.
SigintPending ==
    /\ status = "none" /\ Deliverable
    /\ HandlerThrows
    /\ UNCHANGED <<lflag, fflag, log, startVars, unitVars, saved_mask, guardVars, detVars, drvVars>>

\* ------------------------------------------------------ display_bar_chart

\* The loop body rendering before it samples.
LoopOrderRenderFirst == <<"input", "render", "sample">>

\* One pass of the while (true) loop, in program order.
LoopOrder == <<"input", "sample", "render">>

\* Where control goes when step s of the loop body completes.
AfterLoopStep(s) == LoopOrder[(IndexOf(LoopOrder, s) % Len(LoopOrder)) + 1]

\* The deltas with the operands of the subtraction exchanged.
DeltaOperandsSwapped(cur, prev) ==
    [rx |-> Sub64(prev.rx, cur.rx), tx |-> Sub64(prev.tx, cur.tx)]

\* auto rx = sample.rx - prev_sample.rx; auto tx = sample.tx - prev_sample.tx
Delta(cur, prev) == [rx |-> Sub64(cur.rx, prev.rx), tx |-> Sub64(cur.tx, prev.tx)]

\* The label draw_bars_from_right is given in mode m.
RenderLabel(m) == IF m = "DISPLAY_RX" THEN "received" ELSE "transmitted"

\* The series draw_bars_from_right is given in mode m.
RenderSeries(m) == IF m = "DISPLAY_RX" THEN ts_rx ELSE ts_tx

\* A loop that feeds only the series of the direction on display.
FeedShownOnly(ts, direction, tp, value) ==
    IF RenderLabel(mode) = direction THEN TimeSeriesSet(ts, tp, value) ELSE ts

\* ts_rx.set(now, rx); ts_tx.set(now, tx): each series takes the value of
\* its direction at the one instant, whatever the mode.
Feed(ts, direction, tp, value) == TimeSeriesSet(ts, tp, value)

\* A driver that answers a failed sample by detecting a sampler again.
SampleUnavailableRedetect ==
    /\ pc' = "detect" /\ exc' = exc
    /\ UNCHANGED detVars

\* sampler->get_sample(iface_name) throws: the exception leaves the loop.
SampleUnavailable ==
    /\ Throw("SourceUnavailable")
    /\ UNCHANGED detVars

\* display_bar_chart up to the loop: the mode, the two series, the first sample.
DriverInit(samples) ==
    /\ pc = "dbc_init" /\ exc = "none" /\ Running
    /\ mode' = "DISPLAY_RX"
    /\ ts_rx' = NewTimeSeries /\ ts_tx' = NewTimeSeries
    /\ clock' = 0
    /\ \/ \E s \in samples :
             /\ prev_sample' = s
             /\ pc' = LoopOrder[1] /\ exc' = exc
             /\ UNCHANGED detVars
       \/ /\ SampleUnavailable
          /\ UNCHANGED prev_sample
    /\ UNCHANGED <<status, lflag, fflag, log, startVars, unitVars, sigVars, guardVars,
                   stdin_buf, mode_before, consumed, redraws, polls, iter, fed, rendered>>

\* Extra time an iteration may take beyond its sleeps, in milliseconds.
Jitter == {0, 1000}

\* input_loop(surface, 1000ms) and the mode update that follows it; script is
\* what the user types during the call.
DriverInput(scripts, maxIter) ==
    /\ pc = "input" /\ exc = "none" /\ Running
    /\ iter < maxIter
    /\ \E script \in scripts, jitter \in Jitter :
          LET r == input_loop(stdin_buf, script) IN
          /\ mode' = IF r.mode # "none" THEN r.mode ELSE mode
          /\ stdin_buf' = r.rest
          /\ consumed' = r.taken
          /\ redraws' = r.redraws
          /\ polls' = r.polls
          /\ clock' = clock + r.polls * (TimeBudgetMs \div NumLoops) + jitter
    /\ mode_before' = mode
    /\ fed' = [fed EXCEPT !.due = TRUE]
    /\ pc' = AfterLoopStep("input")
    /\ UNCHANGED <<exc, status, lflag, fflag, log, startVars, unitVars, sigVars, guardVars, detVars,
                   prev_sample, ts_rx, ts_tx, iter, rendered>>

\* The sample of the iteration, the two deltas, both series, prev_sample.
DriverSample(samples) ==
    /\ pc = "sample" /\ exc = "none" /\ Running
    /\ \/ \E s \in samples :
             LET d == Delta(s, prev_sample) IN
             /\ ts_rx' = Feed(ts_rx, "received", clock, d.rx)
             /\ ts_tx' = Feed(ts_tx, "transmitted", clock, d.tx)
             /\ fed' = [rx |-> d.rx, tx |-> d.tx, prev |-> prev_sample, cur |-> s,
                        at |-> clock, due |-> FALSE]
             /\ prev_sample' = s
             /\ iter' = iter + 1
             /\ pc' = AfterLoopStep("sample") /\ exc' = exc
             /\ UNCHANGED detVars
       \/ /\ SampleUnavailable
          /\ UNCHANGED <<ts_rx, ts_tx, fed, prev_sample, iter>>
    /\ UNCHANGED <<status, lflag, fflag, log, startVars, unitVars, sigVars, guardVars,
                   inputVars, clock, rendered>>

\* get_slice_from_end(bar_chart.get_width()) of the active series and
\* draw_bars_from_right.
DriverRender ==
    /\ pc = "render" /\ exc = "none" /\ Running
    /\ rendered' = [label |-> RenderLabel(mode),
                    values |-> get_slice_from_end(RenderSeries(mode), ChartWidth),
                    mode |-> mode, fed |-> fed]
    /\ pc' = AfterLoopStep("render")
    /\ UNCHANGED <<exc, status, lflag, fflag, log, startVars, unitVars, sigVars, guardVars, detVars,
                   inputVars, seriesVars, clock>>

\* ---------------------------------------------------------- environments

\* Readings a sampler may return: counters that grow, stay, shrink (a reset)
\* and one above 2^32.
SampleSpace ==
    {[rx |-> U64(100), tx |-> U64(150)],
     [rx |-> U64(150), tx |-> U64(150)],
     [rx |-> U64(100), tx |-> <<100, 0, 0, 4, 0, 0, 0>>]}

\* Polls of input_loop during whose sleep a key may arrive.
PollPoints == {1, NumLoops}

KeyEvents == [at : PollPoints, ch : Keys]

\* What the user may type during one time budget, in order of arrival.
Scripts ==
    UNION {{s \in [1..n -> KeyEvents] : \A i \in 1..(n - 1) : s[i].at <= s[i + 1].at} :
           n \in 0..MaxKeys}

\* The lifecycle specification follows the terminal state, not the data: one
\* reading and a single keystroke suffice there.
LifeSamples == {[rx |-> U64(100), tx |-> U64(150)]}
LifeScripts == {<<>>, <<[at |-> 1, ch |-> CharT]>>}

\* ----------------------------------------------------------- specification

\* No call on a unit has returned anything yet.
NoResult == [op |-> "none"]

NoReleases == [mode_guard |-> 0, fs_guard |-> 0]

NoGuard == [state |-> "none", prev |-> {}, alive |-> FALSE]

\* fed: the deltas of the latest sample, the two samples they come from, the
\* time they were filed under, and whether the running iteration still owes
\* its sample to the series.
NoFeed ==
    [rx |-> Zero64, tx |-> Zero64, prev |-> [rx |-> Zero64, tx |-> Zero64],
     cur |-> [rx |-> Zero64, tx |-> Zero64], at |-> 0, due |-> FALSE]

\* rendered: label and values of the latest draw_bars_from_right call, with
\* the mode and the feed in force when it was made.
NoRender == [label |-> "none", values |-> <<>>, mode |-> "DISPLAY_RX", fed |-> NoFeed]

Init ==
    /\ pc = "main" /\ exc = "none" /\ status = "none"
    /\ lflag0 \in InitialLflags /\ lflag = lflag0
    /\ fflag0 \in InitialFflags /\ fflag = fflag0
    /\ sigmask = {} /\ pending = FALSE /\ saved_mask = {}
    /\ mode_guard = NoGuard /\ fs_guard = NoGuard
    /\ ret = "unwind" /\ releases = NoReleases
    /\ log = <<>>
    /\ sampler = "none" /\ probed = <<>> /\ detects = 0
    /\ mode = "DISPLAY_RX" /\ stdin_buf = <<>> /\ mode_before = "DISPLAY_RX"
    /\ consumed = <<>> /\ redraws = 0 /\ polls = 0
    /\ prev_sample = [rx |-> Zero64, tx |-> Zero64]
    /\ ts_rx = NewTimeSeries /\ ts_tx = NewTimeSeries
    /\ clock = 0 /\ iter = 0
    /\ fed = NoFeed /\ rendered = NoRender
    /\ call = <<>> /\ result = NoResult

Next ==
    \/ MainStart \/ RunDetect
    \/ ModeGuardEnter \/ ModeGuardCapture \/ ModeGuardWrite \/ ModeGuardLeave
    \/ WindowCreate
    \/ FileStatusGuardCapture \/ FileStatusGuardWrite \/ FileStatusGuardDone
    \/ DriverInit(LifeSamples) \/ DriverInput(LifeScripts, LifeIter)
    \/ DriverSample(LifeSamples) \/ DriverRender
    \/ DestroyFileStatusGuard \/ DestroyModeGuard
    \/ ModeReleaseEnter \/ ModeReleaseWrite \/ ModeReleaseLeave
    \/ UnwindDone \/ MainCatch
    \/ Sigint \/ SigintPending

Spec == Init /\ [][Next]_vars

\* display_bar_chart in detail: the state run() is in when it calls
\* display_bar_chart, then the loop with every reading and typing script.
InitDriver ==
    /\ pc = "dbc_init" /\ exc = "none" /\ status = "none"
    /\ lflag0 = LocalFlags /\ lflag = ModeSetApply(LocalFlags)
    /\ fflag0 = {} /\ fflag = NonBlockingSetApply({})
    /\ sigmask = {} /\ pending = FALSE /\ saved_mask = {}
    /\ mode_guard = [state |-> "held", prev |-> LocalFlags, alive |-> TRUE]
    /\ fs_guard = [state |-> "held", prev |-> {}, alive |-> TRUE]
    /\ ret = "unwind" /\ releases = NoReleases
    /\ log = <<[op |-> "mode_set", old |-> LocalFlags, new |-> ModeSetApply(LocalFlags)],
               [op |-> "fs_set", old |-> {}, new |-> NonBlockingSetApply({})]>>
    /\ sampler = ProbeOrder[1]
    /\ probed = <<[variant |-> ProbeOrder[1], ok |-> TRUE]>>
    /\ detects = 1
    /\ mode = "DISPLAY_RX" /\ stdin_buf = <<>> /\ mode_before = "DISPLAY_RX"
    /\ consumed = <<>> /\ redraws = 0 /\ polls = 0
    /\ prev_sample = [rx |-> Zero64, tx |-> Zero64]
    /\ ts_rx = NewTimeSeries /\ ts_tx = NewTimeSeries
    /\ clock = 0 /\ iter = 0
    /\ fed = NoFeed /\ rendered = NoRender
    /\ call = <<>> /\ result = NoResult

NextDriver ==
    \/ DriverInit(SampleSpace) \/ DriverInput(Scripts, MaxIter)
    \/ DriverSample(SampleSpace) \/ DriverRender

SpecDriver == InitDriver /\ [][NextDriver]_vars

\* A caller that also releases the guards by hand before run() is left.
ExplicitReleaseFileStatus ==
    /\ pc = "dbc_init" /\ exc = "none" /\ Running
    /\ releases.fs_guard < MaxRelease
    /\ releases' = [releases EXCEPT !.fs_guard = @ + 1]
    /\ FileStatusRelease(fs_guard.alive)
    /\ UNCHANGED <<pc, exc, status, lflag, startVars, unitVars, sigVars, mode_guard, ret, detVars,
                   drvVars>>

ExplicitReleaseMode ==
    /\ pc = "dbc_init" /\ exc = "none" /\ Running
    /\ releases.mode_guard < MaxRelease
    /\ releases' = [releases EXCEPT !.mode_guard = @ + 1]
    /\ ModeRelease(mode_guard.alive, "dbc_init")
    /\ UNCHANGED <<exc, status, lflag, fflag, log, startVars, unitVars, sigVars, fs_guard, detVars,
                   drvVars>>

NextGuards == Next \/ ExplicitReleaseFileStatus \/ ExplicitReleaseMode

SpecGuards == Init /\ [][NextGuards]_vars

\* ------------------------------------------------- TimeSeries on its own

\* Every variable of the program at rest, the thread of control at p: the
\* state in which a unit is exercised on its own.
InitUnit(p) ==
    /\ pc = p /\ exc = "none" /\ status = "none"
    /\ lflag0 = LocalFlags /\ lflag = LocalFlags
    /\ fflag0 = {} /\ fflag = {}
    /\ sigmask = {} /\ pending = FALSE /\ saved_mask = {}
    /\ mode_guard = NoGuard /\ fs_guard = NoGuard
    /\ ret = "unwind" /\ releases = NoReleases
    /\ log = <<>>
    /\ sampler = "none" /\ probed = <<>> /\ detects = 0
    /\ mode = "DISPLAY_RX" /\ stdin_buf = <<>> /\ mode_before = "DISPLAY_RX"
    /\ consumed = <<>> /\ redraws = 0 /\ polls = 0
    /\ prev_sample = [rx |-> Zero64, tx |-> Zero64]
    /\ ts_rx = NewTimeSeries /\ ts_tx = NewTimeSeries
    /\ clock = 0 /\ iter = 0
    /\ fed = NoFeed /\ rendered = NoRender
    /\ call = <<>> /\ result = NoResult

\* What a unit exercised on its own leaves alone, the series ts_rx aside.
unitFrame == <<lifeVars, inputVars, prev_sample, ts_tx, iter, fed, clock, rendered>>

\* Instants, in milliseconds since the start epoch, at which the series is
\* written and read: the start and the middle of each interval window, far
\* enough to lap the ring.
SeriesTimes == {k * IntervalMs + off : k \in 0..(RingCapacity + 1), off \in {0, 500}}

\* ts.set(tp, value) by a caller whose clock does not run backwards; the
\* n-th call writes n, so every write is told apart from the others and from
\* a slot never written.
SeriesSet ==
    /\ pc = "series" /\ Len(call) <= RingCapacity
    /\ \E tp \in SeriesTimes :
          /\ call # <<>> => tp >= call[Len(call)].tp
          /\ ts_rx' = TimeSeriesSet(ts_rx, tp, U64(Len(call) + 1))
          /\ call' = Append(call, [tp |-> tp, value |-> U64(Len(call) + 1)])
    /\ result' = NoResult
    /\ UNCHANGED unitFrame

\* ts.get(tp)
SeriesGet ==
    /\ pc = "series"
    /\ \E tp \in SeriesTimes :
          result' = [op |-> "get", tp |-> tp, value |-> TimeSeriesGet(ts_rx, tp)]
    /\ UNCHANGED <<unitFrame, ts_rx, call>>

\* ts.get_slice_from_end(len)
SeriesSlice ==
    /\ pc = "series"
    /\ \E len \in 0..RingCapacity :
          result' = [op |-> "slice", len |-> len, values |-> get_slice_from_end(ts_rx, len)]
    /\ UNCHANGED <<unitFrame, ts_rx, call>>

\* ts.calculate_key(tp), the index turned back into an instant, and once more.
SeriesKey ==
    /\ pc = "series"
    /\ \E tp \in SeriesTimes :
          LET back == calculate_key_of_index(calculate_key(tp)) IN
          result' = [op |-> "key", tp |-> tp, index |-> calculate_key(tp), back |-> back,
                     again |-> calculate_key_of_index(calculate_key(back))]
    /\ UNCHANGED <<unitFrame, ts_rx, call>>

InitSeries == InitUnit("series")

NextSeries == SeriesSet \/ SeriesGet \/ SeriesSlice \/ SeriesKey

SpecSeries == InitSeries /\ [][NextSeries]_vars

\* -------------------------------------------------------------- Formatter

\* units_: the binary-scaled units by exponent, in the ascending order in
\* which the map holds them.
units_ ==
    <<[exponent |-> 0, unit |-> <<"b">>], [exponent |-> 10, unit |-> <<"K", "b">>],
      [exponent |-> 20, unit |-> <<"M", "b">>], [exponent |-> 30, unit |-> <<"G", "b">>],
      [exponent |-> 40, unit |-> <<"T", "b">>], [exponent |-> 50, unit |-> <<"P", "b">>],
      [exponent |-> 60, unit |-> <<"E", "b">>]>>

\* num >> exponent on uint64_t, for the exponents of units_ (multiples of ten).
ShiftRight(num, exponent) ==
    LET k == exponent \div 10 IN [i \in 1..7 |-> IF i + k <= 7 THEN num[i + k] ELSE 0]

\* val << 10 on uint64_t: the bits pushed past bit 63 are lost.
ShiftLeft10(val) ==
    [i \in 1..7 |-> IF i = 1 THEN 0 ELSE IF i = 7 THEN val[6] % 16 ELSE val[i - 1]]

\* The uint64_t as a number, for values the model can hold.
RECURSIVE ToNatFrom(_, _)
ToNatFrom(u, i) == IF i > 7 THEN 0 ELSE u[i] + 1024 * ToNatFrom(u, i + 1)

ToNat(u) == ToNatFrom(u, 1)

\* The loop over units_ from the largest exponent down: the first unit under
\* which the magnitude has a non-zero integer part, and the ten bits below.
RECURSIVE ScaleFrom(_, _)
ScaleFrom(num, k) ==
    IF k = 0
    THEN [int_part |-> Zero64, dec_part |-> Zero64, unit |-> <<"b">>, exponent |-> 0]
    ELSE LET exponent == units_[k].exponent
             val == ShiftRight(num, exponent)
         IN  IF val # Zero64
             THEN [int_part |-> val,
                   dec_part |-> IF exponent >= 10
                                THEN Sub64(ShiftRight(num, exponent - 10), ShiftLeft10(val))
                                ELSE Zero64,
                   unit |-> units_[k].unit, exponent |-> exponent]
             ELSE ScaleFrom(num, k - 1)

DigitChar == <<"0", "1", "2", "3", "4", "5", "6", "7", "8", "9">>

\* sd << n for an unsigned integer: its decimal digits.
RECURSIVE Decimal(_)
Decimal(n) ==
    IF n < 10 THEN <<DigitChar[n + 1]>>
    ELSE Append(Decimal(n \div 10), DigitChar[(n % 10) + 1])

\* double reconstructed = F64(int_part) + F64(dec_part) / 1000.0, held in
\* thousandths: both parts are below 1024, far inside the precision of a double.
Reconstructed(int_part, dec_part) == int_part * 1000 + dec_part

\* sd.precision(3); sd << std::fixed << reconstructed
Fixed3(thousandths) ==
    Decimal(thousandths \div 1000) \o <<".">> \o
    <<DigitChar[((thousandths \div 100) % 10) + 1],
      DigitChar[((thousandths \div 10) % 10) + 1],
      DigitChar[(thousandths % 10) + 1]>>

\* formatted.substr(0, n)
Substr(str, n) == SubSeq(str, 1, IF n < Len(str) THEN n ELSE Len(str))

\* The cut keeping five characters of a value under 100.
TruncatedLengthFive(thousandths) ==
    IF thousandths >= 1000000 THEN 4 ELSE IF thousandths >= 100000 THEN 3 ELSE 5

\* The number of characters kept of the formatted value: 1023.45 -> 1023,
\* 123.456 -> 123, 12.345 -> 12.3.
TruncatedLength(thousandths) ==
    IF thousandths >= 1000000 THEN 4 ELSE IF thousandths >= 100000 THEN 3 ELSE 4

\* ss << std::setw(w) << str: padded with blanks on the left up to w.
SetW(w, str) == [i \in 1..(IF Len(str) < w THEN w - Len(str) ELSE 0) |-> " "] \o str

\* Formatter::format_num_byte_rate(num, time_unit)
format_num_byte_rate(num, time_unit) ==
    LET scale == ScaleFrom(num, Len(units_))
        int_part == ToNat(scale.int_part)
        dec_part == ToNat(scale.dec_part)
        reconstructed == Reconstructed(int_part, dec_part)
        truncated == IF dec_part = 0 THEN Decimal(int_part)
                     ELSE Substr(Fixed3(reconstructed), TruncatedLength(reconstructed))
    IN  [int_part |-> int_part, dec_part |-> dec_part, unit |-> scale.unit,
         exponent |-> scale.exponent, truncated |-> truncated,
         text |-> SetW(4, truncated) \o <<" ">> \o scale.unit \o <<"/">> \o time_unit]

\* The magnitude whose base-1024 digit at place pos is hi, the digit below it
\* lo, every digit further down fill, and nothing above.
Magnitude(pos, hi, lo, fill) ==
    [i \in 1..7 |-> IF i = pos THEN hi ELSE IF i = pos - 1 THEN lo
                     ELSE IF i < pos THEN fill ELSE 0]

\* Magnitudes handed to format_num_byte_rate: zero, plain byte counts, every
\* pairing of an integer part with a remainder at Kb, and values at Mb and at
\* the top unit, up to 2^64 - 1.
Magnitudes ==
    {Zero64}
    \cup {Magnitude(1, hi, 0, 0) : hi \in {1, 9, 10, 99, 100, 999, 1000, 1023}}
    \cup {Magnitude(2, hi, lo, 0) :
             hi \in {1, 2, 9, 10, 12, 99, 100, 123, 999, 1000, 1023},
             lo \in {0, 1, 24, 345, 456, 460, 999, 1000, 1023}}
    \cup {Magnitude(3, hi, lo, fill) :
             hi \in {1, 1023}, lo \in {0, 345, 1023}, fill \in {0, 1023}}
    \cup {Magnitude(7, hi, lo, fill) : hi \in {1, 15}, lo \in {0, 1023}, fill \in {0, 1023}}

\* formatter.format_num_byte_rate(num, "s"), twice over, to compare what the
\* two calls returned.
FormatRate ==
    /\ pc = "format" /\ Len(call) < 2
    /\ \E num \in Magnitudes :
          LET out == format_num_byte_rate(num, <<"s">>) IN
          /\ call' = Append(call, [num |-> num, out |-> out])
          /\ result' = [op |-> "format", num |-> num, out |-> out]
    /\ UNCHANGED <<unitFrame, ts_rx>>

InitFormat == InitUnit("format")

NextFormat == FormatRate

SpecFormat == InitFormat /\ [][NextFormat]_vars

\* get_seconds(tp): the seconds of the minute of a time point, held in whole
\* seconds; the local time zone is a whole number of minutes off UTC.
get_seconds(tp) == tp % 60

\* format_ss(tp): ss << std::setfill('0') << std::setw(2) << secs
format_ss(tp) ==
    <<DigitChar[(get_seconds(tp) \div 10) + 1], DigitChar[(get_seconds(tp) % 10) + 1]>>

\* The tick test without the room it needs to its right.
IsTickNoRoom(secs, num_chars_after_this_one) == secs % 4 = 0

\* (secs % 4 == 0) && (num_chars_after_this_one >= 1)
IsTick(secs, num_chars_after_this_one) ==
    secs % 4 = 0 /\ num_chars_after_this_one >= 1

\* The loop of format_xaxis from points[i] on (i counts from 1 here), ss being
\* what was written so far.
RECURSIVE XaxisFrom(_, _, _, _)
XaxisFrom(points, i, chars_to_skip, ss) ==
    IF i > Len(points) THEN ss
    ELSE LET num_chars_after_this_one == Len(points) - i
             secs == get_seconds(points[i])
         IN  IF chars_to_skip > 0
             THEN XaxisFrom(points, i + 1, chars_to_skip - 1, ss)
             ELSE IF IsTick(secs, num_chars_after_this_one)
                  THEN XaxisFrom(points, i + 1, 1, ss \o format_ss(points[i]))
                  ELSE XaxisFrom(points, i + 1, 0, Append(ss, " "))

\* Formatter::format_xaxis(points)
format_xaxis(points) == XaxisFrom(points, 1, 0, <<>>)

\* n consecutive per-second time points from start on.
PerSecond(start, n) == [i \in 1..n |-> start + (i - 1)]

\* formatter.format_xaxis(points) for consecutive per-second time points
\* starting anywhere in a minute.
FormatXaxis ==
    /\ pc = "axis"
    /\ \E start \in 0..59, n \in 0..MaxPoints :
          /\ call' = <<[points |-> PerSecond(start, n)]>>
          /\ result' = [op |-> "xaxis", points |-> PerSecond(start, n),
                        line |-> format_xaxis(PerSecond(start, n))]
    /\ UNCHANGED <<unitFrame, ts_rx>>

InitAxis == InitUnit("axis")

NextAxis == FormatXaxis

SpecAxis == InitAxis /\ [][NextAxis]_vars

\* ------------------------------------------------------------ properties

LogOps == [i \in 1..Len(log) |-> log[i].op]

Occurrences(op) == Cardinality({i \in 1..Len(log) : log[i].op = op})

Before(opA, opB) ==
    \E i \in 1..Len(log), j \in 1..Len(log) : i < j /\ log[i].op = opA /\ log[j].op = opB

\* A restore writes back what the matching apply found in place.
RestoresCaptured(setOp, resetOp) ==
    \A i \in 1..Len(log) :
        log[i].op = resetOp =>
            \E k \in 1..(i - 1) : log[k].op = setOp /\ log[i].new = log[k].old

\* The process ended through main(): the usage exit, return 0 after the
\* InterruptException handler, or exit(EXIT_FAILURE) in a handler.
ExitedThroughMain == pc = "exit" /\ status \in {"EXIT_SUCCESS", "EXIT_FAILURE"}

\* C1: whenever main() ends the process, after an interrupt at any point or
\* after any failure inside run(), the terminal local-mode flags and the
\* stdin file-status flags equal their values at program start.
C1_RestoredAtExit == ExitedThroughMain => (lflag = lflag0 /\ fflag = fflag0)

\* C2: the mode guard is acquired before the file-status guard and, on every
\* way out of run(), released after it: the file-status flags are never
\* restored after the mode flags, the mode flags are never restored while the
\* file-status guard still holds, each restore writes the value captured at
\* its own acquisition, and no guard is still held when main()'s handlers run.
C2_ReverseRelease ==
    /\ ~Before("fs_set", "mode_set")
    /\ ~Before("mode_reset", "fs_reset")
    /\ (Occurrences("mode_reset") > 0 => fs_guard.state # "held")
    /\ RestoresCaptured("mode_set", "mode_reset")
    /\ RestoresCaptured("fs_set", "fs_reset")
    /\ (pc = "catch" => mode_guard.state # "held" /\ fs_guard.state # "held")

\* Both guards were acquired and released, the file-status guard first.
C2_Witness ==
    pc = "exit" /\ LogOps = <<"mode_set", "fs_set", "fs_reset", "mode_reset">>

\* C3: however often a guard is released, by explicit calls, by scope exit or
\* by both, it writes its remembered value back at most once, and only the
\* value it captured.
C3_RestoreOnce ==
    /\ Occurrences("mode_reset") <= 1
    /\ Occurrences("fs_reset") <= 1
    /\ RestoresCaptured("mode_set", "mode_reset")
    /\ RestoresCaptured("fs_set", "fs_reset")
    /\ (mode_guard.state = "released" <=> Occurrences("mode_reset") = 1)
    /\ (fs_guard.state = "released" <=> Occurrences("fs_reset") = 1)

\* Both guards were released twice by hand and then once more by scope exit.
C3_Witness ==
    /\ pc = "exit" /\ releases.mode_guard >= 2 /\ releases.fs_guard >= 2
    /\ mode_guard.state = "released" /\ ~mode_guard.alive
    /\ fs_guard.state = "released" /\ ~fs_guard.alive
    /\ Occurrences("fs_reset") = 1 /\ Occurrences("mode_reset") = 1

\* C4: between capturing the previous value and writing the new one, every
\* apply and restore of the mode flags and of the file-status flags has SIGINT
\* blocked, and outside those sections the mask is the one in force before.
C4_CriticalSections ==
    /\ (pc \in {"mg_write", "mr_write", "fg_write"} => "SIGINT" \in sigmask)
    /\ (exc = "none" /\ pc \notin {"mg_capture", "mg_write", "mg_leave", "mr_write", "mr_leave"}
            => sigmask = saved_mask)

\* The mode a run of read bytes leaves, byte by byte.
RECURSIVE ModeAfterKeys(_, _)
ModeAfterKeys(m, keys) ==
    IF keys = <<>> THEN m
    ELSE ModeAfterKeys(IF Head(keys) = CharR THEN "DISPLAY_RX"
                       ELSE IF Head(keys) = CharT THEN "DISPLAY_TX"
                       ELSE m,
                       Tail(keys))

\* C5: the mode starts as DISPLAY_RX and is always one of the two modes; of
\* the bytes read, r sets DISPLAY_RX, t sets DISPLAY_TX, every other byte
\* leaves the mode alone, and the surface is redrawn once per newline read and
\* for nothing else.
C5_KeysAndMode ==
    /\ mode \in {"DISPLAY_RX", "DISPLAY_TX"}
    /\ (iter = 0 /\ consumed = <<>> => mode = "DISPLAY_RX")
    /\ mode = ModeAfterKeys(mode_before, consumed)
    /\ redraws = Cardinality({i \in 1..Len(consumed) : consumed[i] = CharNewline})

\* An ignored byte, a newline and a t were read in one call.
C5_Witness ==
    /\ \E i \in 1..Len(consumed) : consumed[i] \notin {CharNewline, CharR, CharT}
    /\ \E i \in 1..Len(consumed) : consumed[i] = CharNewline
    /\ mode_before = "DISPLAY_RX" /\ mode = "DISPLAY_TX" /\ redraws = 1

\* C6: every render happens after the iteration's sample was written into the
\* series, is labelled after the active mode, and shows as its newest bar the
\* value that iteration fed into the series of that mode.
C6_RenderAfterFeed ==
    rendered.label # "none" =>
        /\ ~rendered.fed.due
        /\ rendered.label =
              (IF rendered.mode = "DISPLAY_RX" THEN "received" ELSE "transmitted")
        /\ Len(rendered.values) = ChartWidth
        /\ rendered.values[ChartWidth] =
              (IF rendered.mode = "DISPLAY_RX" THEN rendered.fed.rx ELSE rendered.fed.tx)

\* The second iteration rendered the transmit series.
C6_Witness ==
    /\ rendered.label = "transmitted" /\ iter = 2 /\ pc = "input"
    /\ rendered.fed = fed /\ fed.tx # Zero64

FeedHappened == iter >= 1

\* C7: for consecutive samples with non-decreasing counters the value fed into
\* each series is cur - prev of its direction, prev being the sample of the
\* iteration before (the initial sample in the first iteration).
C7_DeltaFed ==
    FeedHappened =>
        /\ prev_sample = fed.cur
        /\ (~Less64(fed.cur.rx, fed.prev.rx) =>
                /\ Add64(fed.prev.rx, fed.rx) = fed.cur.rx
                /\ ts_rx.storage[calculate_key(fed.at) % RingCapacity] = fed.rx)
        /\ (~Less64(fed.cur.tx, fed.prev.tx) =>
                /\ Add64(fed.prev.tx, fed.tx) = fed.cur.tx
                /\ ts_tx.storage[calculate_key(fed.at) % RingCapacity] = fed.tx)
        /\ (fed.prev.rx = U64(100) /\ fed.cur.rx = U64(150) => fed.rx = U64(50))

\* 100 then 150 received bytes fed 50, in the second iteration.
C7_Witness ==
    /\ iter = 2 /\ fed.prev.rx = U64(100) /\ fed.cur.rx = U64(150) /\ fed.rx = U64(50)
    /\ fed.tx # fed.rx

\* C8: when a counter decreases between two consecutive samples, the value fed
\* into the series is not the 64-bit wrap-around of cur - prev.
C8_ResetNotWrapped ==
    FeedHappened =>
        /\ (Less64(fed.cur.rx, fed.prev.rx) => Add64(fed.prev.rx, fed.rx) # fed.cur.rx)
        /\ (Less64(fed.cur.tx, fed.prev.tx) => Add64(fed.prev.tx, fed.tx) # fed.cur.tx)

\* C9: detection runs at most once; it probes the variants in priority order,
\* every probe before the last failed, the returned sampler is the last one
\* probed and its probe succeeded, and nothing behind it was probed.
C9_FirstWorkingSampler ==
    /\ detects <= 1
    /\ Len(probed) <= Len(ProbeOrder)
    /\ \A i \in 1..Len(probed) :
          /\ probed[i].variant = ProbeOrder[i]
          /\ (i < Len(probed) => ~probed[i].ok)
    /\ (sampler # "none" =>
          probed # <<>> /\ probed[Len(probed)].variant = sampler /\ probed[Len(probed)].ok)
    /\ (sampler = "none" => \A i \in 1..Len(probed) : ~probed[i].ok)
    /\ (detects = 0 => probed = <<>>)

\* The third variant was chosen after two failures and is sampled in the loop.
C9_Witness ==
    /\ sampler = ProbeOrder[3] /\ Len(probed) = 3 /\ detects = 1
    /\ pc = "render"

\* C10: when every variant fails the process does not end with success and no
\* terminal or file-status flag was ever written; no guard acquisition begins
\* its work before detection has returned a sampler.
C10_DetectBeforeGuards ==
    /\ (detects >= 1 /\ sampler = "none" =>
          /\ log = <<>> /\ lflag = lflag0 /\ fflag = fflag0
          /\ pc \in {"unwind", "catch", "exit"}
          /\ (pc = "exit" => status \in {"EXIT_FAILURE", "SIGABRT"}))
    /\ (log # <<>> \/ pc \in {"mg_capture", "mg_write", "mg_leave"} => sampler # "none")

\* Every variant was probed and failed, and main() exited with failure.
C10_Witness ==
    /\ pc = "exit" /\ status = "EXIT_FAILURE"
    /\ sampler = "none" /\ Len(probed) = Len(ProbeOrder) /\ log = <<>>

\* C11: the exit status is success exactly when the process ended after the
\* unwind of an InterruptException; it is a failure when the argument is
\* missing, when detection found no sampler, when the chosen sampler failed
\* later (after which detection is never run again) and after any other
\* failure; main()'s handlers are reached only by an exception, never by
\* display_bar_chart returning.
C11_ExitStatus ==
    /\ (status = "EXIT_SUCCESS" <=> (pc = "exit" /\ exc = "Interrupt"))
    /\ (pc = "exit" /\ exc = "none" => status = "EXIT_FAILURE" /\ detects = 0)
    /\ (pc = "exit" /\ exc \in Failures => status \in {"EXIT_FAILURE", "SIGABRT"})
    /\ (exc = "NoSamplerAvailable" <=> (detects >= 1 /\ sampler = "none"))
    /\ (exc = "SourceUnavailable" =>
            detects = 1 /\ pc \in {"unwind", "mr_enter", "mr_write", "mr_leave", "catch", "exit"})
    /\ (pc = "catch" => exc # "none")

\* The chosen sampler failed inside the loop and main() exited with failure.
C11_Witness ==
    /\ pc = "exit" /\ status = "EXIT_FAILURE" /\ exc = "SourceUnavailable"
    /\ polls > 0 /\ sampler # "none" /\ lflag = lflag0

\* The writes so far went to consecutive interval keys, one write per key.
ConsecutiveKeys ==
    \A i \in 1..(Len(call) - 1) :
        call[i + 1].tp \div IntervalMs = (call[i].tp \div IntervalMs) + 1

\* The last len values written, oldest first, zero where there are fewer.
LastWritten(len) ==
    [j \in 1..len |->
        LET i == Len(call) - (len - j) IN IF i >= 1 THEN call[i].value ELSE Zero64]

KeysWritten == {call[i].tp \div IntervalMs : i \in 1..Len(call)}

\* The value of the last write that went to the ring position of key k.
LastAtPosition(k) ==
    LET hits == {i \in 1..Len(call) :
                    (call[i].tp \div IntervalMs) % RingCapacity = k % RingCapacity}
    IN  call[CHOOSE i \in hits : \A h \in hits : h <= i].value

SameWindow(t1, t2) ==
    \E k \in 0..(RingCapacity + 1) :
        /\ k * IntervalMs <= t1 /\ t1 < (k + 1) * IntervalMs
        /\ k * IntervalMs <= t2 /\ t2 < (k + 1) * IntervalMs

TopPlace(num) ==
    IF num = Zero64 THEN 0 ELSE CHOOSE i \in 1..7 : num[i] # 0 /\ \A j \in (i + 1)..7 : num[j] = 0

\* The integer part of a magnitude under the largest unit that leaves one.
IntegerPart(num) == IF TopPlace(num) = 0 THEN 0 ELSE num[TopPlace(num)]

\* The fractional remainder: the ten bits below the integer part.
Remainder(num) == IF TopPlace(num) <= 1 THEN 0 ELSE num[TopPlace(num) - 1]

\* The reconstructed value of a magnitude, in thousandths.
ValueOf(num) == IntegerPart(num) * 1000 + Remainder(num)

\* Where the decimal point of a numeral stands, 0 when it has none.
PointAt(str) ==
    IF \E i \in 1..Len(str) : str[i] = "." THEN CHOOSE i \in 1..Len(str) : str[i] = "." ELSE 0

\* The number of decimal places a numeral shows.
DecimalPlaces(str) == IF PointAt(str) = 0 THEN 0 ELSE Len(str) - PointAt(str)

RECURSIVE Power10(_)
Power10(n) == IF n = 0 THEN 1 ELSE 10 * Power10(n - 1)

\* The number a run of digits spells.
RECURSIVE NumberOf(_)
NumberOf(digits) ==
    IF digits = <<>> THEN 0
    ELSE 10 * NumberOf(SubSeq(digits, 1, Len(digits) - 1))
         + (CHOOSE d \in 0..9 : DigitChar[d + 1] = digits[Len(digits)])

\* The integer a numeral shows before its decimal point.
ShownInteger(str) ==
    NumberOf(IF PointAt(str) = 0 THEN str ELSE SubSeq(str, 1, PointAt(str) - 1))

\* The value a numeral shows, in thousandths.
ShownValue(str) ==
    ShownInteger(str) * 1000 +
    (IF PointAt(str) = 0 THEN 0
     ELSE NumberOf(SubSeq(str, PointAt(str) + 1, Len(str))) * Power10(3 - DecimalPlaces(str)))

\* The numeral is the value cut off, never rounded up, at its last place.
CutOff(str, value) ==
    /\ ShownValue(str) <= value
    /\ value - ShownValue(str) < Power10(3 - DecimalPlaces(str))

\* The text starts with the numeral, right-aligned in at least four columns,
\* and a blank after it.
RightAligned(text, str) ==
    LET w == IF Len(str) < 4 THEN 4 ELSE Len(str) IN
    /\ Len(text) > w /\ text[w + 1] = " "
    /\ \A i \in 1..w : text[i] = (IF i <= w - Len(str) THEN " " ELSE str[i - (w - Len(str))])

\* C15 as claimed: with a non-zero remainder the reconstructed value is shown
\* cut off, with exactly one decimal place under 100 and none from 100 on;
\* with a zero remainder only the integer part is shown; the numeral is
\* right-aligned in at least four columns.
C15_OneDecimalUnder100 ==
    pc = "format" /\ result.op = "format" =>
        LET str == result.out.truncated
            value == ValueOf(result.num)
        IN  /\ RightAligned(result.out.text, str)
            /\ (Remainder(result.num) = 0 => str = Decimal(IntegerPart(result.num)))
            /\ (Remainder(result.num) # 0 =>
                  /\ CutOff(str, value)
                  /\ DecimalPlaces(str) = (IF value < 100000 THEN 1 ELSE 0))

\* C15 amended: as claimed, except that a reconstructed value under 10 is
\* shown with two decimal places; one decimal place from 10 up to 100.
C15_FourCharacters ==
    pc = "format" /\ result.op = "format" =>
        LET str == result.out.truncated
            value == ValueOf(result.num)
        IN  /\ RightAligned(result.out.text, str)
            /\ (Remainder(result.num) = 0 => str = Decimal(IntegerPart(result.num)))
            /\ (Remainder(result.num) # 0 =>
                  /\ CutOff(str, value)
                  /\ DecimalPlaces(str) =
                        (IF value < 10000 THEN 2 ELSE IF value < 100000 THEN 1 ELSE 0))

\* 1 Kb and 345/1024 of one was formatted: 1.345 shown as 1.34.
C15_Witness ==
    /\ pc = "format" /\ result.op = "format"
    /\ result.num = Magnitude(2, 1, 345, 0)
    /\ result.out.truncated = <<"1", ".", "3", "4">>

\* The unit of units_ with the largest exponent under which the magnitude has
\* a non-zero integer part, the first unit for zero.
LargestUnit(num) ==
    IF num = Zero64 THEN units_[1]
    ELSE CHOOSE u \in {units_[k] : k \in 1..Len(units_)} :
            u.exponent = 10 * (TopPlace(num) - 1)

\* C16: the unit is the largest one under which the magnitude has a non-zero
\* integer part, and the integer shown is that integer part; zero is shown as
\* 0 with unit b and 1024 as 1 with unit Kb and no fraction.
C16_LargestUnit ==
    pc = "format" /\ result.op = "format" =>
        /\ result.out.unit = LargestUnit(result.num).unit
        /\ ShownInteger(result.out.truncated) = IntegerPart(result.num)
        /\ (result.num = Zero64 =>
              result.out.truncated = <<"0">> /\ result.out.unit = <<"b">>)
        /\ (result.num = U64(1024) =>
              result.out.truncated = <<"1">> /\ result.out.unit = <<"K", "b">>)

\* The unit alone is always the largest one with a non-zero integer part.
UnitIsLargest ==
    pc = "format" /\ result.op = "format" =>
        /\ result.out.unit = LargestUnit(result.num).unit
        /\ result.out.int_part = IntegerPart(result.num)

LessOrEqual64(a, b) == ~Less64(b, a)

\* C20: of two magnitudes shown with the same unit, the smaller is not shown
\* as the larger number.
C20_OrderPreserved ==
    (/\ pc = "format" /\ Len(call) = 2
     /\ call[1].out.unit = call[2].out.unit
     /\ LessOrEqual64(call[1].num, call[2].num))
    => ShownValue(call[1].out.truncated) <= ShownValue(call[2].out.truncated)

\* A tick is due at column c (counted from 0) of the axis of these points.
TickDue(points, c) ==
    /\ c >= 0 /\ c < Len(points) - 1
    /\ (points[c + 1] % 60) % 4 = 0

\* The two digits of the seconds of the minute of a time point.
TwoDigits(tp) == Decimal(100 + (tp % 60))

\* C17: the axis of n consecutive per-second time points has exactly n cells;
\* a tick starts at column c exactly when the seconds of point c are divisible
\* by 4 and c < n - 1; it fills cells c and c + 1 with the two-digit seconds;
\* every other cell is blank; no two ticks overlap; eight points starting at
\* a multiple of 4 have their ticks at columns 0 and 4 only.
C17_AxisTicks ==
    pc = "axis" /\ result.op = "xaxis" =>
        LET points == result.points
            n == Len(points)
            line == result.line
        IN  /\ Len(line) = n
            /\ \A c \in 0..(n - 1) :
                  /\ ~(TickDue(points, c) /\ TickDue(points, c - 1))
                  /\ line[c + 1] =
                        (IF TickDue(points, c) THEN TwoDigits(points[c + 1])[2]
                         ELSE IF TickDue(points, c - 1) THEN TwoDigits(points[c])[3]
                         ELSE " ")
            /\ (n = 8 /\ (points[1] % 60) % 4 = 0 =>
                  {c \in 0..(n - 1) : line[c + 1] # " "} = {0, 1, 4, 5})

\* Eight points from second 56 on: a tick at column 0, one at column 4 across
\* the minute, blanks elsewhere.
C17_Witness ==
    /\ pc = "axis" /\ result.op = "xaxis"
    /\ result.points = PerSecond(56, 8)
    /\ result.line = <<"5", "6", " ", " ", "0", "0", " ", " ">>

\* C18: a sample is taken only after input_loop has made all of its polls,
\* so a sample is at least one full time budget later than the one before it
\* (the initial sample for the first).
C18_FullBudget ==
    /\ (pc = "sample" => polls = NumLoops)
    /\ (FeedHappened /\ pc = "render" =>
          fed.at - (IF iter = 1 THEN 0 ELSE rendered.fed.at) >= TimeBudgetMs)

====
